---- MODULE Spec2Model ----
(***************************************************************************)
(* FASTQ quality-control core of gcp-bioinformatics-pipeline:              *)
(* parse_fastq and calculate_qc_metrics of src/cloud_function/main.py      *)
(* (duplicated in src/scripts/test_local.py).                              *)
(*                                                                         *)
(* A string is a sequence of code points (integers), so that ord(),        *)
(* upper(), strip() and split() are computed as Python computes them.      *)
(* A float rounded to 2 decimals is an integer number of hundredths.       *)
(***************************************************************************)
EXTENDS Integers, Sequences, FiniteSets, TLC

VARIABLES file_content, pc, lines, i, sequences, quality_strings, metrics,
          runs, prev,
          file_name, blob, stage, downloads, rows, exc

vars == <<file_content, pc, lines, i, sequences, quality_strings, metrics,
          runs, prev, file_name, blob, stage, downloads, rows, exc>>

\* the state of process_fastq around the two core functions
pvars == <<file_name, blob, stage, downloads, rows, exc>>

\* the locals of the two core functions
cvars == <<lines, i, sequences, quality_strings, metrics, runs, prev>>

\* ---------------------------------------------------------------- bounds
MaxLines == 5
MaxRecs == 2
MaxRuns == 2

\* ----------------------------------------------------------- code points
\* '\n' (line 40), '@' (line 46), 'G' and 'C' (line 89)
NL == 10
AT == 64
UG == 71
UC == 67

\* ------------------------------------------------------- string helpers
\* str.isspace() on the ASCII range
IsSpace(c) == c \in {9, 10, 11, 12, 13, 28, 29, 30, 31, 32}

RECURSIVE LStrip(_)
LStrip(s) == IF s # <<>> /\ IsSpace(Head(s)) THEN LStrip(Tail(s)) ELSE s

RECURSIVE RStrip(_)
RStrip(s) ==
  IF s # <<>> /\ IsSpace(s[Len(s)]) THEN RStrip(SubSeq(s, 1, Len(s) - 1))
  ELSE s

\* str.strip(): leading and trailing whitespace of the whole content
Strip(s) == RStrip(LStrip(s))

\* str.split('\n'): always at least one piece, pieces may be empty
RECURSIVE SplitAcc(_, _, _)
SplitAcc(s, cur, acc) ==
  IF s = <<>> THEN Append(acc, cur)
  ELSE IF Head(s) = NL THEN SplitAcc(Tail(s), <<>>, Append(acc, cur))
  ELSE SplitAcc(Tail(s), Append(cur, Head(s)), acc)

Split(s) == SplitAcc(s, <<>>, <<>>)

\* the bytes of a file whose '\n'-separated pieces are ls
RECURSIVE Join(_)
Join(ls) ==
  IF ls = <<>> THEN <<>>
  ELSE IF Len(ls) = 1 THEN ls[1]
  ELSE ls[1] \o <<NL>> \o Join(Tail(ls))

\* str.startswith('@')
StartsWithAt(line) == Len(line) > 0 /\ line[1] = AT

\* the upper() of line 87 left out
UpperCharNone(c) == c

\* str.upper() on one ASCII code point
UpperChar(c) == IF c >= 97 /\ c <= 122 THEN c - 32 ELSE c

Upper(s) == [k \in 1..Len(s) |-> UpperChar(s[k])]

\* str.count(ch)
Count(s, ch) == Cardinality({k \in 1..Len(s) : s[k] = ch})

RECURSIVE SumSeq(_)
SumSeq(ns) == IF ns = <<>> THEN 0 ELSE Head(ns) + SumSeq(Tail(ns))

\* round(n / d, 2) in hundredths, for the scaled numerator n = 100 * x:
\* Python rounds the double to the nearest, exact halves to even
RoundHalfEven(n, d) ==
  LET q == n \div d
      r == n % d
  IN  IF 2 * r < d THEN q
      ELSE IF 2 * r > d THEN q + 1
      ELSE IF q % 2 = 0 THEN q ELSE q + 1

\* ------------------------------------------------- parse_fastq, the loop
\* line 48: the window starting at index i (0-based) is complete
CanEmit(k, ls) == k + 3 < Len(ls)

\* bytes.decode('utf-8') raises on a byte of 128 or more that is not part of
\* a multi-byte sequence; the inputs hold such bytes only on their own
Utf8Invalid(content) == \E k \in 1..Len(content) : content[k] >= 128

\* line 40 without the strip()
DecodeLinesNoStrip(content) == Split(content)

\* line 40
DecodeLines(content) == Split(Strip(content))

\* lines 46-53: one iteration of the loop on the state st = [i, seqs, quals]
LoopStep(ls, st) ==
  IF StartsWithAt(ls[st.i + 1])
  THEN IF CanEmit(st.i, ls)
       THEN [i |-> st.i + 4,
             seqs |-> Append(st.seqs, ls[st.i + 2]),
             quals |-> Append(st.quals, ls[st.i + 4])]
       ELSE [st EXCEPT !.i = st.i + 4]
  ELSE [st EXCEPT !.i = st.i + 1]

\* lines 45-55: the loop run to its end
RECURSIVE RunLoop(_, _)
RunLoop(ls, st) ==
  IF st.i < Len(ls) THEN RunLoop(ls, LoopStep(ls, st)) ELSE st

\* lines 30-55: the pair (sequences, quality_strings) returned for content
parse_fastq(content) ==
  LET st == RunLoop(DecodeLines(content),
                    [i |-> 0, seqs |-> <<>>, quals |-> <<>>])
  IN  <<st.seqs, st.quals>>

\* ------------------------------------------------ calculate_qc_metrics
ZeroMetrics ==
  [total_reads |-> 0, avg_length |-> 0, gc_content |-> 0, avg_quality |-> 0]

NoResult ==
  [total_reads |-> -1, avg_length |-> 0, gc_content |-> 0, avg_quality |-> 0]

\* line 80
TotalLength(seqs) == SumSeq([k \in 1..Len(seqs) |-> Len(seqs[k])])

\* "=" written for "+=" at line 88: only the last sequence is counted
TotalBasesLast(seqs) ==
  IF seqs = <<>> THEN 0 ELSE Len(Upper(seqs[Len(seqs)]))

\* lines 84-88
TotalBases(seqs) ==
  SumSeq([k \in 1..Len(seqs) |-> Len(Upper(seqs[k]))])

\* lines 85-89
GcBases(seqs) ==
  SumSeq([k \in 1..Len(seqs) |->
            Count(Upper(seqs[k]), UG) + Count(Upper(seqs[k]), UC)])

\* line 98 with the score clamped to the Phred range 0..93
PhredScoreClamped(c) ==
  IF c - 33 < 0 THEN 0 ELSE IF c - 33 > 93 THEN 93 ELSE c - 33

\* line 98
PhredScore(c) == c - 33

\* lines 94-99
TotalQuality(quals) ==
  SumSeq([k \in 1..Len(quals) |->
            SumSeq([j \in 1..Len(quals[k]) |-> PhredScore(quals[k][j])])])

\* lines 95-100
QualityCount(quals) == SumSeq([k \in 1..Len(quals) |-> Len(quals[k])])

\* lines 91 and 102 guarded by total_reads instead of their own denominator:
\* the division by zero raises and no metrics are returned
calculate_qc_metrics_reads_guard(seqs, quals) ==
  IF seqs = <<>> THEN ZeroMetrics
  ELSE IF TotalBases(seqs) = 0 \/ QualityCount(quals) = 0 THEN NoResult
  ELSE
    [total_reads |-> Len(seqs),
     avg_length |-> RoundHalfEven(100 * TotalLength(seqs), Len(seqs)),
     gc_content |->
       RoundHalfEven(10000 * GcBases(seqs), TotalBases(seqs)),
     avg_quality |->
       RoundHalfEven(100 * TotalQuality(quals), QualityCount(quals))]

\* lines 58-109
calculate_qc_metrics(seqs, quals) ==
  IF seqs = <<>> THEN ZeroMetrics
  ELSE
    LET total_reads == Len(seqs)
        total_bases == TotalBases(seqs)
        quality_count == QualityCount(quals)
    IN  [total_reads |-> total_reads,
         avg_length |->
           IF total_reads > 0
           THEN RoundHalfEven(100 * TotalLength(seqs), total_reads) ELSE 0,
         gc_content |->
           IF total_bases > 0
           THEN RoundHalfEven(10000 * GcBases(seqs), total_bases) ELSE 0,
         avg_quality |->
           IF quality_count > 0
           THEN RoundHalfEven(100 * TotalQuality(quals), quality_count)
           ELSE 0]

\* --------------------------------------------------------------- inputs
\* lines: "", "@", "+", "G", "cA", "G " (with a trailing space)
S_EMPTY == <<>>
S_AT == <<AT>>
S_PLUS == <<43>>
S_G == <<UG>>
S_cA == <<99, 65>>
S_GSP == <<UG, 32>>

LinePool == {S_EMPTY, S_AT, S_PLUS, S_G, S_cA, S_GSP}

SeqsOver(S, n) == UNION {[1..m -> S] : m \in 0..n}

\* any file of at most MaxLines '\n'-separated pieces over LinePool
LineInputs == {Join(ls) : ls \in SeqsOver(LinePool, MaxLines)}

\* the two records ATGC/IIII and GGCC/IIII
Fixture ==
  Join(<<S_AT, <<65, 84, 71, 67>>, S_PLUS, <<73, 73, 73, 73>>,
         S_AT, <<71, 71, 67, 67>>, S_PLUS, <<73, 73, 73, 73>>, S_EMPTY>>)

FieldPool == {S_EMPTY, S_AT, S_G, S_GSP}

\* 4-line windows with a header and a separator and any two fields
WindowPool == {<<S_AT, sq, S_PLUS, ql>> : sq \in FieldPool, ql \in FieldPool}

RECURSIVE Flatten(_)
Flatten(ws) == IF ws = <<>> THEN <<>> ELSE Head(ws) \o Flatten(Tail(ws))

TailPool ==
  SeqsOver({S_AT, S_G}, 2) \cup {<<S_AT, S_G, S_PLUS>>}

\* at most MaxRecs windows, then a partial tail, then an optional newline
RecordInputs ==
  {Join(Flatten(ws) \o tl \o nl) :
     ws \in SeqsOver(WindowPool, MaxRecs),
     tl \in TailPool,
     nl \in {<<>>, <<S_EMPTY>>}}

Inputs == LineInputs \cup RecordInputs \cup {Fixture}

\* -------------------------------------------------------------- actions
\* the two core functions called on their own, outside process_fastq
NoProcess ==
  /\ file_name = <<>>
  /\ blob = <<>>
  /\ stage = "idle"
  /\ downloads = 0
  /\ rows = <<>>
  /\ exc = "none"

Init ==
  /\ file_content \in Inputs
  /\ pc = "start"
  /\ lines = <<>>
  /\ i = 0
  /\ sequences = <<>>
  /\ quality_strings = <<>>
  /\ metrics = NoResult
  /\ runs = 1
  /\ prev = NoResult
  /\ NoProcess

\* lines 41-42 with lists that outlive the call (module-level lists)
ParseStartShared ==
  /\ pc = "start"
  /\ ~Utf8Invalid(file_content)
  /\ lines' = DecodeLines(file_content)
  /\ i' = 0
  /\ pc' = "loop"
  /\ UNCHANGED <<file_content, sequences, quality_strings, metrics, runs,
                 prev>>
  /\ UNCHANGED pvars

\* lines 40-44: decode, strip, split; fresh result lists; i = 0
ParseStart ==
  /\ pc = "start"
  /\ ~Utf8Invalid(file_content)
  /\ lines' = DecodeLines(file_content)
  /\ sequences' = <<>>
  /\ quality_strings' = <<>>
  /\ i' = 0
  /\ pc' = "loop"
  /\ UNCHANGED <<file_content, metrics, runs, prev>>
  /\ UNCHANGED pvars

\* line 51 advancing by one line instead of four
ParseHeaderByOne ==
  /\ pc = "loop"
  /\ i < Len(lines)
  /\ StartsWithAt(lines[i + 1])
  /\ IF CanEmit(i, lines)
     THEN /\ sequences' = Append(sequences, lines[i + 2])
          /\ quality_strings' = Append(quality_strings, lines[i + 4])
     ELSE UNCHANGED <<sequences, quality_strings>>
  /\ i' = i + 1
  /\ UNCHANGED <<file_content, pc, lines, metrics, runs, prev>>
  /\ UNCHANGED pvars

\* lines 46-51: a line beginning with '@' where a header is expected
ParseHeader ==
  /\ pc = "loop"
  /\ i < Len(lines)
  /\ StartsWithAt(lines[i + 1])
  /\ IF CanEmit(i, lines)
     THEN /\ sequences' = Append(sequences, lines[i + 2])
          /\ quality_strings' = Append(quality_strings, lines[i + 4])
     ELSE UNCHANGED <<sequences, quality_strings>>
  /\ i' = i + 4
  /\ UNCHANGED <<file_content, pc, lines, metrics, runs, prev>>
  /\ UNCHANGED pvars

\* lines 52-53: any other line is skipped
ParseSkip ==
  /\ pc = "loop"
  /\ i < Len(lines)
  /\ ~StartsWithAt(lines[i + 1])
  /\ i' = i + 1
  /\ UNCHANGED <<file_content, pc, lines, sequences, quality_strings,
                 metrics, runs, prev>>
  /\ UNCHANGED pvars

\* lines 45, 55: the loop ends, the two lists are returned
ParseReturn ==
  /\ pc = "loop"
  /\ i >= Len(lines)
  /\ pc' = "calc"
  /\ UNCHANGED <<file_content, lines, i, sequences, quality_strings,
                 metrics, runs, prev>>
  /\ UNCHANGED pvars

\* lines 58-109
Calculate ==
  /\ pc = "calc"
  /\ metrics' = calculate_qc_metrics(sequences, quality_strings)
  /\ pc' = "done"
  /\ UNCHANGED <<file_content, lines, i, sequences, quality_strings,
                 runs, prev>>
  /\ UNCHANGED pvars

\* a further, independent invocation on the same bytes
Reinvoke ==
  /\ pc = "done"
  /\ runs < MaxRuns
  /\ runs' = runs + 1
  /\ prev' = metrics
  /\ metrics' = NoResult
  /\ pc' = "start"
  /\ UNCHANGED <<file_content, lines, i, sequences, quality_strings>>
  /\ UNCHANGED pvars

Next ==
  \/ ParseStart
  \/ ParseHeader
  \/ ParseSkip
  \/ ParseReturn
  \/ Calculate
  \/ Reinvoke

Spec == Init /\ [][Next]_vars

\* ------------------------------------------ parse_fastq run to its end
MaxParseLines == 5

\* files of at most MaxParseLines pieces, and of one or two whole windows
ParseInputs ==
  {Join(ls) : ls \in SeqsOver(LinePool, MaxParseLines)}
    \cup {Join(Flatten(ws)) : ws \in SeqsOver(WindowPool, 2)}

InitParse ==
  /\ file_content \in ParseInputs
  /\ pc = "start"
  /\ lines = <<>>
  /\ i = 0
  /\ sequences = <<>>
  /\ quality_strings = <<>>
  /\ metrics = NoResult
  /\ runs = 1
  /\ prev = NoResult
  /\ NoProcess

NextParse ==
  \/ ParseStart
  \/ ParseHeader
  \/ ParseSkip
  \/ ParseReturn

\* the interpreter keeps executing the loop: a step that can be taken is taken
SpecParse == InitParse /\ [][NextParse]_vars /\ WF_vars(NextParse)

\* ------------------------------- calculate_qc_metrics called on its own
\* sequences: "", "G", "c", "gN", "AT"
SeqPool == {<<>>, <<UG>>, <<99>>, <<103, 78>>, <<65, 84>>}

\* quality strings: "", "I", " " (score -1), DEL (score 94), "h!" (71, 0)
QualPool == {<<>>, <<73>>, <<32>>, <<127>>, <<104, 33>>}

MaxReads == 2

\* the two lists are any lists of at most MaxReads strings
InitCalc ==
  /\ sequences \in SeqsOver(SeqPool, MaxReads)
  /\ quality_strings \in SeqsOver(QualPool, MaxReads)
  /\ pc = "calc"
  /\ file_content = <<>>
  /\ lines = <<>>
  /\ i = 0
  /\ metrics = NoResult
  /\ runs = 1
  /\ prev = NoResult
  /\ NoProcess

NextCalc == Calculate

SpecCalc == InitCalc /\ [][NextCalc]_vars

\* ------------------------------------------------------- process_fastq
\* ".fastq", ".fastq.gz", ".gz"
DotFastq == <<46, 102, 97, 115, 116, 113>>
DotGz == <<46, 103, 122>>
DotFastqGz == DotFastq \o DotGz

\* str.endswith(suf)
EndsWith(str, suf) ==
  /\ Len(str) >= Len(suf)
  /\ SubSeq(str, Len(str) - Len(suf) + 1, Len(str)) = suf

\* line 128 testing '.gz' where '.fastq.gz' is meant
IsFastqNameLoose(name) == EndsWith(name, DotFastq) \/ EndsWith(name, DotGz)

\* line 128
IsFastqName(name) ==
  EndsWith(name, DotFastq) \/ EndsWith(name, DotFastqGz)

\* line 139
IsGzName(name) == EndsWith(name, DotGz)

\* a gzip member: the two magic bytes, then the payload standing for the
\* compressed stream; gzip.decompress raises on bytes without the magic
Gzip(payload) == <<31, 139>> \o payload

GzipOk(bytes) == Len(bytes) >= 2 /\ bytes[1] = 31 /\ bytes[2] = 139

Gunzip(bytes) == SubSeq(bytes, 3, Len(bytes))

\* lines 156-163
MakeRow(name, ts, m) ==
  [filename |-> name,
   timestamp |-> ts,
   total_reads |-> m.total_reads,
   avg_length |-> m.avg_length,
   gc_content |-> m.gc_content,
   avg_quality |-> m.avg_quality]

\* object names: absent, "r.txt", "r.gz", "r.fastq", "r.fastq.gz"
Names ==
  {<<>>, <<114, 46, 116, 120, 116>>, <<114>> \o DotGz, <<114>> \o DotFastq,
   <<114>> \o DotFastqGz}

\* file contents: empty, one record, the two-record fixture, a record with
\* a short quality line, a byte that is not UTF-8
Payloads ==
  {<<>>, Join(<<S_AT, S_G, S_PLUS, S_G, S_EMPTY>>), Fixture,
   Join(<<S_AT, S_cA, S_PLUS, S_G>>), <<255>>}

\* the stored object: a payload as it is, or compressed
Blobs == Payloads \cup {Gzip(b) : b \in Payloads}

MaxClock == 2

InitProcess ==
  /\ file_name \in Names
  /\ blob \in Blobs
  /\ stage = "event"
  /\ downloads = 0
  /\ rows = <<>>
  /\ exc = "none"
  /\ file_content = <<>>
  /\ pc = "idle"
  /\ lines = <<>>
  /\ i = 0
  /\ sequences = <<>>
  /\ quality_strings = <<>>
  /\ metrics = NoResult
  /\ runs = 1
  /\ prev = NoResult

\* lines 123-132: the name is tested; any other object is skipped
CheckName ==
  /\ stage = "event"
  /\ stage' = IF IsFastqName(file_name) THEN "download" ELSE "returned"
  /\ UNCHANGED <<file_content, pc, cvars, file_name, blob, downloads, rows,
                 exc>>

\* lines 140, 142: download_as_bytes raises
DownloadFails ==
  /\ stage = "download"
  /\ downloads' = downloads + 1
  /\ exc' = "DownloadError"
  /\ stage' = "except"
  /\ UNCHANGED <<file_content, pc, cvars, file_name, blob, rows>>

\* lines 135-142: the bytes are fetched, and decompressed for a '.gz' name
Download ==
  /\ stage = "download"
  /\ downloads' = downloads + 1
  /\ IF IsGzName(file_name) /\ ~GzipOk(blob)
     THEN /\ exc' = "BadGzipFile"
          /\ stage' = "except"
          /\ UNCHANGED <<file_content, pc>>
     ELSE /\ file_content' =
               IF IsGzName(file_name) THEN Gunzip(blob) ELSE blob
          /\ pc' = "start"
          /\ stage' = "core"
          /\ UNCHANGED exc
  /\ UNCHANGED <<cvars, file_name, blob, rows>>

\* line 40: decode raises, parse_fastq is left by the exception
ParseDecodeError ==
  /\ pc = "start"
  /\ Utf8Invalid(file_content)
  /\ pc' = "raised"
  /\ exc' = "UnicodeDecodeError"
  /\ stage' = IF stage = "core" THEN "except" ELSE stage
  /\ UNCHANGED <<file_content, cvars, file_name, blob, downloads, rows>>

\* lines 152-172: the row is built and sent; the insert is accepted, or
\* reports errors (line 170 raises), or raises itself
Insert ==
  /\ stage = "core"
  /\ pc = "done"
  /\ \E ts \in 1..MaxClock : \E res \in {"accepted", "errors", "raises"} :
       IF res = "accepted"
       THEN /\ rows' = Append(rows, MakeRow(file_name, ts, metrics))
            /\ stage' = "returned"
            /\ UNCHANGED exc
       ELSE /\ exc' = IF res = "errors" THEN "InsertFailed" ELSE "InsertError"
            /\ stage' = "except"
            /\ UNCHANGED rows
  /\ UNCHANGED <<file_content, pc, cvars, file_name, blob, downloads>>

\* lines 174-176 without the raise: the failure is logged and dropped
ExceptSwallow ==
  /\ stage = "except"
  /\ stage' = "returned"
  /\ UNCHANGED <<file_content, pc, cvars, file_name, blob, downloads, rows,
                 exc>>

\* lines 174-176: the failure is logged and raised again
Except ==
  /\ stage = "except"
  /\ stage' = "raised"
  /\ UNCHANGED <<file_content, pc, cvars, file_name, blob, downloads, rows,
                 exc>>

NextProcess ==
  \/ CheckName
  \/ DownloadFails
  \/ Download
  \/ ParseDecodeError
  \/ ParseStart
  \/ ParseHeader
  \/ ParseSkip
  \/ ParseReturn
  \/ Calculate
  \/ Insert
  \/ Except

SpecProcess == InitProcess /\ [][NextProcess]_vars

\* ------------------------------------------------ the input as written
\* the '\n'-terminated lines of the raw bytes, before any stripping
RawLines(content) ==
  LET p == Split(content)
  IN  IF p[Len(p)] = <<>> THEN SubSeq(p, 1, Len(p) - 1) ELSE p

StartsWithPlus(line) == Len(line) > 0 /\ line[1] = 43

NonBlank(ls) == SelectSeq(ls, LAMBDA l : l # <<>>)

\* the k-th group of four lines of ls
Window(ls, k) == SubSeq(ls, 4 * k - 3, 4 * k)

\* header and separator markers present, no blank line
WindowMarked(w) ==
  /\ StartsWithAt(w[1])
  /\ StartsWithPlus(w[3])
  /\ \A j \in 1..4 : w[j] # <<>>

\* a well-formed record: marked, and sequence and quality of equal length
WindowWellFormed(w) == WindowMarked(w) /\ Len(w[2]) = Len(w[4])

\* ls is n >= 0 marked windows and nothing else
MarkedStream(ls) ==
  /\ Len(ls) % 4 = 0
  /\ \A k \in 1..(Len(ls) \div 4) : WindowMarked(Window(ls, k))

\* ls is n >= 0 well-formed records and nothing else
WellFormedStream(ls) ==
  /\ Len(ls) % 4 = 0
  /\ \A k \in 1..(Len(ls) \div 4) : WindowWellFormed(Window(ls, k))

SeqFields(ls) == [k \in 1..(Len(ls) \div 4) |-> ls[4 * k - 2]]

QualFields(ls) == [k \in 1..(Len(ls) \div 4) |-> ls[4 * k]]

Returned == pc \in {"calc", "done"}

\* the metrics the documentation states for the records of ls
StatedMetrics(ls) ==
  LET n == Len(ls) \div 4
      sq == SeqFields(ls)
      ql == QualFields(ls)
      symbols == SumSeq([k \in 1..n |-> Len(sq[k])])
      gc == SumSeq([k \in 1..n |->
              Cardinality({j \in 1..Len(sq[k]) :
                             UpperChar(sq[k][j]) \in {UG, UC}})])
      qsymbols == SumSeq([k \in 1..n |-> Len(ql[k])])
      qsum == SumSeq([k \in 1..n |->
                SumSeq([j \in 1..Len(ql[k]) |-> ql[k][j] - 33])])
  IN  [total_reads |-> n,
       avg_length |-> RoundHalfEven(100 * symbols, n),
       gc_content |-> RoundHalfEven(10000 * gc, symbols),
       avg_quality |-> RoundHalfEven(100 * qsum, qsymbols)]

\* ---------------------------------------------------------------- claims

\* C1: every record parse_fastq returns has len(sequence) = len(quality): a
\* window whose quality line differs in length from its sequence line makes
\* the parse fail, so it is never appended and never reaches the metrics.
C1_LengthInvariant ==
  \A k \in 1..Len(sequences) :
    k <= Len(quality_strings) /\ Len(sequences[k]) = Len(quality_strings[k])

\* C2: for an input made of n >= 1 well-formed 4-line records the metrics
\* are total_reads = n, avg_length = symbols / n, gc_content = 100 * GC /
\* symbols, avg_quality = sum(code point - 33) / quality symbols, each ratio
\* rounded to 2 decimals.
C2_StatedMetrics ==
  (/\ pc = "done"
   /\ Len(RawLines(file_content)) >= 4
   /\ WellFormedStream(RawLines(file_content)))
  => metrics = StatedMetrics(RawLines(file_content))

\* C3: an empty input, or one that holds only a partial window of 1 to 3
\* lines, returns no record and yields the all-zero metrics.
C3_ZeroInput ==
  Len(RawLines(file_content)) <= 3
  => /\ sequences = <<>> /\ quality_strings = <<>>
     /\ pc = "done" => metrics = ZeroMetrics

C3_Witness ==
  /\ pc = "done"
  /\ Len(RawLines(file_content)) = 3
  /\ StartsWithAt(RawLines(file_content)[1])
  /\ metrics = ZeroMetrics

\* C4: k complete well-formed records followed by a partial window of 1 to 3
\* lines: exactly the k records are returned, and the metrics equal those of
\* the same input with the partial tail removed.
C4_TailIgnored ==
  \A t \in 1..3 :
    LET raw == RawLines(file_content)
        body == SubSeq(raw, 1, Len(raw) - t)
        cut == parse_fastq(Join(body \o <<S_EMPTY>>))
    IN  (/\ pc = "done"
         /\ Len(raw) >= 4 + t
         /\ WellFormedStream(body))
        => /\ sequences = SeqFields(body)
           /\ quality_strings = QualFields(body)
           /\ metrics = calculate_qc_metrics(cut[1], cut[2])

\* C5: a window is emitted as a record only if its line 1 begins with '@'
\* and its line 3 begins with '+'.
C5_SeparatorRequired ==
  [][Len(sequences') > Len(sequences)
       => StartsWithAt(lines[i + 1]) /\ StartsWithPlus(lines[i + 3])]_vars

\* C6: a stream of n marked 4-line windows without blank lines returns
\* exactly n records in input order, the k-th with sequence = line 2 and
\* quality = line 4 of the k-th window.
C6_FieldsOfWindows ==
  (Returned /\ MarkedStream(RawLines(file_content)))
  => /\ sequences = SeqFields(RawLines(file_content))
     /\ quality_strings = QualFields(RawLines(file_content))

\* C7: records are formed from the non-blank lines grouped in fours: blank
\* lines inserted anywhere in a stream of marked windows do not change the
\* records returned.
C7_BlankLinesIgnored ==
  (Returned /\ MarkedStream(NonBlank(RawLines(file_content))))
  => <<sequences, quality_strings>>
       = parse_fastq(Join(NonBlank(RawLines(file_content))))

\* C8: for every input 0.0 <= gc_content <= 100.0: the counted G/C symbols
\* never exceed the counted sequence symbols.
C8_GcBound ==
  pc = "done" => metrics.gc_content >= 0 /\ metrics.gc_content <= 10000

C8_Witness ==
  /\ pc = "done"
  /\ metrics.total_reads = 2
  /\ sequences[1] = <<>>
  /\ metrics.gc_content = 10000

\* C9: at every point of a run at most one RawBlock (four lines) and one
\* Record are held in addition to the accumulator.
C9_BoundedInFlight ==
  /\ Len(lines) <= 4
  /\ Len(sequences) <= 1
  /\ Len(quality_strings) <= 1

\* C10: a second invocation on the same bytes yields the same four fields as
\* the first: nothing is left over from a previous invocation.
C10_SameBytesSameMetrics ==
  (pc = "done" /\ runs >= 2) => metrics = prev

C10_Witness ==
  /\ pc = "done"
  /\ runs = 2
  /\ metrics.total_reads = 2
  /\ metrics = prev

\* all the symbols of a list of strings, in order
RECURSIVE Symbols(_)
Symbols(ss) == IF ss = <<>> THEN <<>> ELSE Head(ss) \o Symbols(Tail(ss))

\* C12: every quality symbol is decoded as code point - 33 with no range
\* validation: scores below 0 or above 93 are summed as they are and counted,
\* and the function returns metrics without raising or clamping.
C12_PhredUnvalidated ==
  LET q == Symbols(quality_strings)
  IN  (pc = "done" /\ sequences # <<>>)
      => /\ metrics # NoResult
         /\ q # <<>> =>
              metrics.avg_quality
                = RoundHalfEven(100 * (SumSeq(q) - 33 * Len(q)), Len(q))

C12_Witness ==
  /\ pc = "done"
  /\ sequences # <<>>
  /\ \E k \in 1..Len(Symbols(quality_strings)) :
       Symbols(quality_strings)[k] < 33
  /\ \E k \in 1..Len(Symbols(quality_strings)) :
       Symbols(quality_strings)[k] > 126
  /\ metrics.avg_quality = 4650

\* the symbol in its other case
SwapCase(c) ==
  IF c >= 97 /\ c <= 122 THEN c - 32
  ELSE IF c >= 65 /\ c <= 90 THEN c + 32 ELSE c

IsGC(c) == c \in {67, 71, 99, 103}

\* C13: GC counting is case-insensitive and every sequence symbol is in the
\* denominator: g, c, G and C each add 1 to both totals, any other symbol
\* adds 1 to the base total only, and replacing any one symbol by its
\* other-case form leaves gc_content unchanged.
C13_CaseInsensitiveGc ==
  LET b == Symbols(sequences)
      gc == Cardinality({k \in 1..Len(b) : IsGC(b[k])})
  IN  (pc = "done" /\ sequences # <<>>)
      => /\ metrics.gc_content
              = IF b = <<>> THEN 0 ELSE RoundHalfEven(10000 * gc, Len(b))
         /\ \A r \in 1..Len(sequences) : \A j \in 1..Len(sequences[r]) :
              calculate_qc_metrics(
                  [sequences EXCEPT ![r][j] = SwapCase(sequences[r][j])],
                  quality_strings).gc_content
                = metrics.gc_content

C13_Witness ==
  /\ pc = "done"
  /\ sequences = << <<99>>, <<103, 78>> >>
  /\ metrics.gc_content = 6667

\* C14: every division is guarded on its own denominator: with records whose
\* sequences are all empty gc_content = 0.0 and avg_length = 0.0 and
\* total_reads is the record count; with quality strings all empty
\* avg_quality = 0.0; the function always returns metrics.
C14_ZeroDenominators ==
  (pc = "done" /\ sequences # <<>>)
  => /\ metrics # NoResult
     /\ metrics.total_reads = Len(sequences)
     /\ Symbols(sequences) = <<>>
          => metrics.gc_content = 0 /\ metrics.avg_length = 0
     /\ Symbols(quality_strings) = <<>> => metrics.avg_quality = 0

C14_Witness ==
  /\ pc = "done"
  /\ Len(sequences) = 2
  /\ Symbols(sequences) = <<>>
  /\ Symbols(quality_strings) # <<>>
  /\ metrics.total_reads = 2
  /\ metrics.gc_content = 0
  /\ metrics.avg_length = 0

\* C16: parse_fastq terminates: every iteration advances the line index, by
\* 4 after a line beginning with '@' and by 1 otherwise, a skipped line emits
\* nothing, the two lists keep equal length and the records never exceed
\* floor(number of lines / 4).
C16_LoopAdvances ==
  /\ [][(pc = "loop" /\ pc' = "loop")
          => \/ /\ StartsWithAt(lines[i + 1])
                /\ i' = i + 4
             \/ /\ ~StartsWithAt(lines[i + 1])
                /\ i' = i + 1
                /\ UNCHANGED <<sequences, quality_strings>>]_vars
  /\ [](/\ Len(sequences) = Len(quality_strings)
        /\ 4 * Len(sequences) <= Len(lines))
  /\ <>(pc = "calc")

C16_Witness ==
  /\ pc = "calc"
  /\ Len(lines) = 5
  /\ ~StartsWithAt(lines[1])
  /\ Len(sequences) = 1
  /\ i = 5

\* the object name ends in ".fastq" or ".fastq.gz"
NamedFastq ==
  \/ EndsWith(file_name, <<46, 102, 97, 115, 116, 113>>)
  \/ EndsWith(file_name, <<46, 102, 97, 115, 116, 113, 46, 103, 122>>)

\* C11: an invocation for a name ending in .fastq or .fastq.gz that returns
\* normally has inserted exactly one row with that filename, a timestamp and
\* the four metrics of that file, and a row exists only after download,
\* parsing and calculation; for any other name nothing is downloaded and no
\* row is inserted.
C11_OneRowPerFile ==
  /\ (stage = "returned" /\ NamedFastq)
       => LET rec == parse_fastq(file_content)
              m == calculate_qc_metrics(rec[1], rec[2])
          IN  /\ Len(rows) = 1
              /\ rows[1].filename = file_name
              /\ rows[1].timestamp \in 1..MaxClock
              /\ file_content
                   = IF EndsWith(file_name, <<46, 103, 122>>)
                     THEN Gunzip(blob) ELSE blob
              /\ <<rows[1].total_reads, rows[1].avg_length,
                   rows[1].gc_content, rows[1].avg_quality>>
                   = <<m.total_reads, m.avg_length, m.gc_content,
                       m.avg_quality>>
  /\ rows # <<>> => Len(rows) = 1 /\ downloads = 1 /\ pc = "done" /\ NamedFastq
  /\ ~NamedFastq
       => /\ downloads = 0
          /\ rows = <<>>
          /\ pc = "idle"
          /\ stage \in {"event", "returned"}

C11_Witness ==
  /\ stage = "returned"
  /\ file_name = <<114>> \o DotFastqGz
  /\ Len(rows) = 1
  /\ rows[1].total_reads = 2
  /\ rows[1].gc_content = 7500

\* C15: process_fastq never swallows a failure: once download, decompression
\* or parsing has raised, the same exception reaches the caller and no row is
\* inserted; an insert that reports errors raises; a normal return for a
\* FASTQ-named object means the row was accepted.
C15_FailuresPropagate ==
  /\ [](/\ exc # "none" => rows = <<>> /\ stage \in {"except", "raised"}
        /\ stage = "raised" => exc # "none"
        /\ (stage = "returned" /\ NamedFastq)
             => exc = "none" /\ Len(rows) = 1)
  /\ [][exc # "none" => exc' = exc]_vars

C15_Witness ==
  /\ stage = "raised"
  /\ exc = "InsertFailed"
  /\ pc = "done"
  /\ rows = <<>>

====
